---- MODULE Spec2Model ----
(***************************************************************************)
(* Model of SerialPlotterTUI (src/SerialPlotterTUI.py) and of the          *)
(* AsciiGraph store of its variant (src/serial_plotter_tui.py).            *)
(*                                                                         *)
(*  - PlotextGraph / AsciiGraph : the bounded multi-series store           *)
(*  - SerialPlotterTUI          : on_mount, the background thread          *)
(*    read_serial_loop (one action per statement that touches state shared *)
(*    with the main context), and the main-context handlers action_quit,   *)
(*    action_pause, action_clear and process_line (run through             *)
(*    call_from_thread).                                                   *)
(*  - the read loops of serial_plotter_tui.py and serial_plotter.py        *)
(*  - parse_line, applied to bounded lines in ParseSpec                    *)
(*  - PlotextGraph.render, as the points it plots for a series             *)
(*                                                                         *)
(* Lines are tuples of one-character strings; floats are integers scaled   *)
(* by 10^FracDigits.                                                       *)
(***************************************************************************)
EXTENDS Integers, Sequences, FiniteSets, TLC

\* ------------------------------------------------------------------ bounds
\* largest capacity (-p / max_points) a run is started with
MaxPoints == 2
\* PlotextGraph.add_values calls in StoreSpec
MaxTicks == 4
\* AsciiGraph.add_values calls in StoreSpec
MaxAsciiTicks == 3
\* sample batches the device delivers in Spec
MaxLines == 2
\* connect/read outcomes and link notifications recorded in history
MaxHistory == 6
\* most fields of a line passed to parse_line in ParseSpec
MaxFields == 3

\* ------------------------------------------------------------- vocabulary
\* None as a series slot (the missing marker); a slot is an optional float
None == << >>

\* a float as a series slot
Some(v) == <<v>>

\* None as the value of self.serial_conn; the handles are 1, 2, ...
NoConn == 0

\* reconnect_interval of read_serial_loop, in seconds
reconnect_interval == 1

\* measurement names occurring in the modelled device output (str as a
\* tuple of characters)
Names == {<<"a">>, <<"b">>}

\* float values occurring in the modelled device output (scaled integers)
Values == {1000, 2000}

\* the batches add_values is driven with in StoreSpec: every dict over Names
Batches == UNION {[S -> Values] : S \in SUBSET Names}

\* ------------------------------------------------------------- parse_line
\* digits of a float kept after the decimal point
FracDigits == 3

Digits == {"0", "1", "2", "3", "4", "5", "6", "7", "8", "9"}

Letters == {"a", "b", "c", "e", "i", "l", "n", "r", "w", "x", "y", "z", "C", "H",
            "K", "_"}

\* \w of the re module
WordChars == Digits \cup Letters

\* \s of the re module, and what str.strip() removes
SpaceChars == {" ", "\t"}

\* [:=]
LabelSeps == {":", "="}

\* [-+]
SignChars == {"-", "+"}

\* [,;\s\t] of re.split
SplitChars == {",", ";"} \cup SpaceChars

Min(S) == CHOOSE m \in S : \A n \in S : m <= n

\* end (exclusive) of the longest run of characters of C starting at i
RunEnd(s, i, C) ==
    Min({j \in i..(Len(s) + 1) : j = Len(s) + 1 \/ s[j] \notin C})

\* position of the first character of C at or after i, Len(s) + 1 when none
NextIn(s, i, C) ==
    Min({j \in i..(Len(s) + 1) : j = Len(s) + 1 \/ s[j] \in C})

\* start (inclusive) of the longest run of characters of C ending at i
RunStart(s, i, C) ==
    Min({j \in 1..(i + 1) : \A k \in j..i : s[k] \in C})

\* str.strip()
Strip(s) ==
    LET b == RunEnd(s, 1, SpaceChars)
    IN  IF b > Len(s) THEN << >>
        ELSE SubSeq(s, b, RunStart(s, Len(s), SpaceChars) - 1)

\* [-+]?\d*\.?\d+ matched at position p with the backtracking of re:
\* the end (exclusive) of the match, 0 when there is none
NumberEnd(s, p) ==
    LET q  == IF p <= Len(s) /\ s[p] \in SignChars THEN p + 1 ELSE p
        d1 == RunEnd(s, q, Digits)
        d2 == IF d1 <= Len(s) /\ s[d1] = "." THEN RunEnd(s, d1 + 1, Digits) ELSE 0
    IN  IF d2 > d1 + 1 THEN d2
        ELSE IF d1 > q THEN d1
        ELSE 0

\* value of a decimal digit
DigitVal(c) ==
    CASE c = "0" -> 0 [] c = "1" -> 1 [] c = "2" -> 2 [] c = "3" -> 3
      [] c = "4" -> 4 [] c = "5" -> 5 [] c = "6" -> 6 [] c = "7" -> 7
      [] c = "8" -> 8 [] c = "9" -> 9

RECURSIVE Pow10(_)
Pow10(n) == IF n = 0 THEN 1 ELSE 10 * Pow10(n - 1)

RECURSIVE DigitsVal(_)
\* int() of a run of digits, 0 for the empty run
DigitsVal(ds) ==
    IF ds = << >> THEN 0
    ELSE 10 * DigitsVal(SubSeq(ds, 1, Len(ds) - 1)) + DigitVal(ds[Len(ds)])

\* float(text) for a text matched by [-+]?\d*\.?\d+, scaled by 10^FracDigits
float(text) ==
    LET neg  == text[1] = "-"
        q    == IF text[1] \in SignChars THEN 2 ELSE 1
        d1   == RunEnd(text, q, Digits)
        int  == SubSeq(text, q, d1 - 1)
        frac == IF d1 <= Len(text) THEN SubSeq(text, d1 + 1, Len(text)) ELSE << >>
        kept == SubSeq(frac, 1, IF Len(frac) < FracDigits THEN Len(frac) ELSE FracDigits)
        mag  == DigitsVal(int) * Pow10(FracDigits)
                 + DigitsVal(kept) * Pow10(FracDigits - Len(kept))
    IN  IF neg THEN 0 - mag ELSE mag

\* (\w+)\s*[:=]\s*([-+]?\d*\.?\d+) matched at position i: the groups and the
\* end (exclusive) of the match, end = 0 when there is no match at i
LabeledMatchAt(s, i) ==
    LET w == RunEnd(s, i, WordChars)
        a == RunEnd(s, w, SpaceChars)
        b == IF a <= Len(s) /\ s[a] \in LabelSeps
             THEN RunEnd(s, a + 1, SpaceChars) ELSE 0
        e == IF w > i /\ b > 0 THEN NumberEnd(s, b) ELSE 0
    IN  IF e > 0
        THEN [label |-> SubSeq(s, i, w - 1), value |-> SubSeq(s, b, e - 1), end |-> e]
        ELSE [label |-> << >>, value |-> << >>, end |-> 0]

\* the element of a one-element set: Only({e(v) : v \in {x}}) is
\* LET v == x IN e(v), with x evaluated once
Only(S) == CHOOSE x \in S : TRUE

RECURSIVE FindAllFrom(_, _)
\* re.findall(labeled_pattern, line): the non-overlapping matches, left to right
FindAllFrom(s, i) ==
    IF i > Len(s) THEN << >>
    ELSE Only({ IF m.end > 0
                THEN <<[label |-> m.label, value |-> m.value]>>
                        \o FindAllFrom(s, m.end)
                ELSE FindAllFrom(s, i + 1) : m \in {LabeledMatchAt(s, i)} })

RECURSIVE SplitFrom(_, _)
\* re.split(r'[,;\s\t]+', line): the fields from position i on
SplitFrom(s, i) ==
    Only({ IF e > Len(s) THEN <<SubSeq(s, i, Len(s))>>
           ELSE <<SubSeq(s, i, e - 1)>>
                   \o Only({ SplitFrom(s, n) : n \in {RunEnd(s, e, SplitChars)} }) :
             e \in {NextIn(s, i, SplitChars)} })

\* re.search(r'[-+]?\d*\.?\d+', part): the leftmost match, << >> when none
SearchNumber(part) ==
    LET starts == {p \in 1..Len(part) : NumberEnd(part, p) > 0}
    IN  IF starts = {} THEN << >>
        ELSE SubSeq(part, Min(starts), NumberEnd(part, Min(starts)) - 1)

RECURSIVE Str(_)
\* str(n) for n >= 0
Str(n) ==
    LET d == CHOOSE c \in Digits : DigitVal(c) = n % 10
    IN  IF n < 10 THEN <<d>> ELSE Append(Str(n \div 10), d)

RECURSIVE DictFromPairsFirstWins(_)
\* a dict that keeps the first value assigned to a key
DictFromPairsFirstWins(pairs) ==
    IF pairs = << >> THEN << >>
    ELSE LET rest == DictFromPairsFirstWins(SubSeq(pairs, 1, Len(pairs) - 1))
             last == pairs[Len(pairs)]
         IN  [k \in (DOMAIN rest) \cup {last.key} |->
                 IF k \in DOMAIN rest THEN rest[k] ELSE last.value]

RECURSIVE DictFromPairs(_)
\* the dict built by assigning values[key] = value for the pairs in order
DictFromPairs(pairs) ==
    IF pairs = << >> THEN << >>
    ELSE LET rest == DictFromPairs(SubSeq(pairs, 1, Len(pairs) - 1))
             last == pairs[Len(pairs)]
         IN  [k \in (DOMAIN rest) \cup {last.key} |->
                 IF k = last.key THEN last.value ELSE rest[k]]

RECURSIVE PositionalFromShifted(_, _)
RECURSIVE PositionalFrom(_, _)
RECURSIVE KanalPositionalFrom(_, _)
\* a positional branch that numbers the numeric fields only, so that a field
\* without a number shifts the indices of the later fields
PositionalFromShifted(parts, i) ==
    IF parts = << >> THEN << >>
    ELSE Only({ IF num_match # << >>
                THEN <<[key |-> <<"C", "H">> \o Str(i), value |-> float(num_match)]>>
                        \o PositionalFromShifted(Tail(parts), i + 1)
                ELSE PositionalFromShifted(Tail(parts), i) :
                  num_match \in {SearchNumber(Head(parts))} })

\* the positional branch of parse_line: for i, part in enumerate(parts), from
\* index i - 1 on, as the (key, value) assignments in order
PositionalFrom(parts, i) ==
    IF i > Len(parts) THEN << >>
    ELSE Only({ IF num_match # << >>
                THEN <<[key |-> <<"C", "H">> \o Str(i), value |-> float(num_match)]>>
                ELSE << >> : num_match \in {SearchNumber(parts[i])} })
         \o PositionalFrom(parts, i + 1)

\* a parse_line that attempts the positional grammar for every line and adds
\* the labeled matches to its result
ParseLineMerged(raw) ==
    Only({ IF line = << >> THEN << >>
           ELSE Only({ DictFromPairs(
                         PositionalFrom(SplitFrom(line, 1), 1)
                         \o [k \in 1..Len(labeled_matches) |->
                                [key   |-> labeled_matches[k].label,
                                 value |-> float(labeled_matches[k].value)]]) :
                         labeled_matches \in {FindAllFrom(line, 1)} }) :
             line \in {Strip(raw)} })

\* SerialPlotterTUI.parse_line(line)
parse_line(raw) ==
    Only({ IF line = << >> THEN << >>
           ELSE Only({ IF labeled_matches # << >>
                       THEN DictFromPairs(
                              [k \in 1..Len(labeled_matches) |->
                                  [key   |-> labeled_matches[k].label,
                                   value |-> float(labeled_matches[k].value)]])
                       ELSE Only({ DictFromPairs(PositionalFrom(parts, 1)) :
                                     parts \in {SplitFrom(line, 1)} }) :
                         labeled_matches \in {FindAllFrom(line, 1)} }) :
             line \in {Strip(raw)} })

\* the else branch of parse_line of serial_plotter.py: the name of the k-th
\* field is Kanal_<k>
KanalPositionalFrom(parts, i) ==
    IF i > Len(parts) THEN << >>
    ELSE Only({ IF num_match # << >>
                THEN <<[key |-> <<"K", "a", "n", "a", "l", "_">> \o Str(i),
                        value |-> float(num_match)]>>
                ELSE << >> : num_match \in {SearchNumber(parts[i])} })
         \o KanalPositionalFrom(parts, i + 1)

\* SerialPlotter.parse_line(line) of serial_plotter.py
sp_parse_line(raw) ==
    Only({ IF line = << >> THEN << >>
           ELSE Only({ IF labeled_matches # << >>
                       THEN DictFromPairs([k \in 1..Len(labeled_matches) |->
                               [key |-> labeled_matches[k].label,
                                value |-> float(labeled_matches[k].value)]])
                       ELSE Only({ DictFromPairs(KanalPositionalFrom(parts, 1)) :
                                     parts \in {SplitFrom(line, 1)} }) :
                         labeled_matches \in {FindAllFrom(line, 1)} }) :
             line \in {Strip(raw)} })

VARIABLES
    \* ---- PlotextGraph
    max_points,       \* PlotextGraph.max_points
    data_series,      \* PlotextGraph.data_series : name -> deque
    timestamps,       \* PlotextGraph.timestamps  : deque of ticks
    sample_count,     \* PlotextGraph.sample_count
    first_tick,       \* history: name -> sample_count at which it was inserted
    \* ---- AsciiGraph (serial_plotter_tui.py)
    ascii_series,     \* AsciiGraph.data_series
    ascii_count,      \* history: number of AsciiGraph.add_values calls
    \* ---- CurrentValues
    current_values,   \* CurrentValues.values
    \* ---- SerialPlotterTUI
    serial_conn,      \* self.serial_conn : NoConn or a handle
    running,          \* self.running
    paused,           \* self.paused
    session_data,     \* self.session_data
    all_labels,       \* self.all_labels
    \* ---- read_serial_loop (background thread)
    pc,               \* position of the thread
    disconnected,     \* local disconnected
    elapsed,          \* min(time.time() - last_reconnect_attempt, reconnect_interval)
    since_fail,       \* history: min(time since serial.Serial(...) last raised,
                      \* reconnect_interval); reconnect_interval when the last
                      \* call returned a handle or none was made
    line,             \* local line while it is handed to process_line, else << >>
    new_conn,         \* the handle serial.Serial() returned, before it is assigned
    \* ---- main context
    qpc,              \* position of the main context inside action_quit
    log_empty,        \* the RichLog "#serial-log" holds no line
    \* ---- device
    present,          \* the device is plugged in
    open_handles,     \* the handles that are open (is_open)
    broken_handles,   \* the open handles whose device was unplugged
    \* ---- history
    recording,        \* outcomes and notifications are recorded in history
    last_note,        \* the last link notification scheduled, "none" before
    history,          \* the first MaxHistory connect/read outcomes and link
                      \* notifications, in order
    lines_read,       \* the lines read that carry a non-empty batch, each
                      \* with its batch, in the order of the reads
    \* ---- serial_plotter_tui.py and serial_plotter.py
    tui_pc,           \* position of read_serial_loop of serial_plotter_tui.py
    sp_pc,            \* position inside read_serial_data of serial_plotter.py
    sp_values,        \* the dict the last read_serial_data returned
    \* ---- parse_line applied to a chosen line
    parse_input,      \* the argument line
    parse_output,     \* the dict SerialPlotterTUI.parse_line returned
    kanal_output,     \* the dict SerialPlotter.parse_line returned
    parsed            \* the variants whose parse_line has returned

storeVars == <<max_points, data_series, timestamps, sample_count,
               first_tick>>

asciiVars == <<ascii_series, ascii_count>>

exportVars == <<current_values, session_data, all_labels>>

appVars == <<serial_conn, running, paused, pc, disconnected, elapsed, since_fail, line,
             new_conn, qpc, log_empty, present, open_handles, broken_handles,
             recording, last_note, history, lines_read>>

variantVars == <<tui_pc, sp_pc, sp_values>>

parseVars == <<parse_input, parse_output, kanal_output, parsed>>

vars == <<storeVars, asciiVars, exportVars, appVars, variantVars, parseVars>>

\* --------------------------------------------------------------- the store
\* a deque that never evicts: append(x) on a deque without maxlen
DequeAppendNoEvict(d, x, maxlen) == Append(d, x)

\* collections.deque(maxlen=n).append(x)
DequeAppend(d, x, maxlen) ==
    LET s == Append(d, x)
    IN  IF Len(s) > maxlen THEN Tail(s) ELSE s

\* the body of the two loops of add_values: the series dict after a batch
SeriesAfter(series, values, maxlen) ==
    [label \in (DOMAIN series) \cup (DOMAIN values) |->
        IF label \in DOMAIN values
        THEN DequeAppend(IF label \in DOMAIN series THEN series[label] ELSE <<>>,
                         Some(values[label]), maxlen)
        ELSE DequeAppend(series[label], None, maxlen)]

\* an add_values that appends the tick before it is incremented
add_values_stale_tick(values) ==
    /\ sample_count' = sample_count + 1
    /\ timestamps' = DequeAppend(timestamps, sample_count, max_points)
    /\ data_series' = SeriesAfter(data_series, values, max_points)
    /\ first_tick' = [label \in (DOMAIN data_series) \cup (DOMAIN values) |->
                        IF label \in DOMAIN data_series THEN first_tick[label]
                        ELSE sample_count + 1]
    /\ UNCHANGED max_points

\* PlotextGraph.add_values(values)
add_values(values) ==
    /\ sample_count' = sample_count + 1
    /\ timestamps' = DequeAppend(timestamps, sample_count + 1, max_points)
    /\ data_series' = SeriesAfter(data_series, values, max_points)
    /\ first_tick' = [label \in (DOMAIN data_series) \cup (DOMAIN values) |->
                        IF label \in DOMAIN data_series THEN first_tick[label]
                        ELSE sample_count + 1]
    /\ UNCHANGED max_points

\* AsciiGraph.add_values(values)
ascii_add_values(values) ==
    /\ ascii_series' = SeriesAfter(ascii_series, values, max_points)
    /\ ascii_count' = ascii_count + 1

\* zip(x, y): the pairs up to the end of the shorter sequence
Zip(x, y) ==
    [i \in 1..Min({Len(x), Len(y)}) |-> <<x[i], y[i]>>]

\* PlotextGraph.render: the points (valid_x[i], valid_y[i]) plotted for label
RenderPoints(label) ==
    SelectSeq(Zip(timestamps, data_series[label]), LAMBDA p : p[2] # None)

\* PlotextGraph.__init__ / AsciiGraph.__init__
InitStore ==
    /\ max_points \in 0..MaxPoints
    /\ data_series = << >>
    /\ timestamps = << >>
    /\ sample_count = 0
    /\ first_tick = << >>
    /\ ascii_series = << >>
    /\ ascii_count = 0

\* CurrentValues.__init__ and SerialPlotterTUI.__init__, before on_mount
InitApp ==
    /\ current_values = << >>
    /\ serial_conn = NoConn
    /\ running = TRUE
    /\ paused = FALSE
    /\ session_data = << >>
    /\ all_labels = {}
    /\ pc = "unmounted"
    /\ disconnected = FALSE
    /\ elapsed = reconnect_interval
    /\ since_fail = reconnect_interval
    /\ line = << >>
    /\ new_conn = NoConn
    /\ qpc = "idle"
    /\ log_empty = TRUE
    /\ present \in BOOLEAN
    /\ open_handles = {}
    /\ broken_handles = {}
    /\ last_note = "none"
    /\ history = << >>
    /\ lines_read = << >>

\* SerialPlotterTUI.__init__ of serial_plotter_tui.py and
\* SerialPlotter.__init__ of serial_plotter.py, before the connect
InitVariant ==
    /\ tui_pc = "unmounted"
    /\ sp_pc = "unconnected"
    /\ sp_values = << >>

\* no call of parse_line has returned
InitParse ==
    /\ parse_output = << >>
    /\ kanal_output = << >>
    /\ parsed = {}

Init ==
    /\ InitStore
    /\ InitApp
    /\ InitVariant
    /\ InitParse
    /\ parse_input = << >>
    /\ recording = TRUE

\* the capacities (-p) the application is started with: nothing retained,
\* one slot, and the largest
Capacities == {0, 1, MaxPoints}

\* SerialPlotterTUI constructed with one of the capacities
AppInit ==
    /\ Init
    /\ max_points \in Capacities

\* the same start with the history switched off
LiveInit ==
    /\ InitStore
    /\ max_points \in Capacities
    /\ InitApp
    /\ InitVariant
    /\ InitParse
    /\ parse_input = << >>
    /\ recording = FALSE

\* ------------------------------------------------------- SerialPlotterTUI
\* the lines the modelled device sends: "a:1", "raw_line=2", "x" and " "
DeviceLines ==
    { <<"a", ":", "1">>,
      <<"r", "a", "w", "_", "l", "i", "n", "e", "=", "2">>,
      <<"x">>, <<" ">> }

\* readline().decode('utf-8', errors='ignore').strip() for each device line
ReadLines == {Strip(raw) : raw \in DeviceLines}

\* the history with the event e recorded
Record(h, e) == IF recording /\ Len(h) < MaxHistory THEN Append(h, e) ELSE h

\* lines_read with the stripped line l recorded when it carries a batch
RecordLine(ls, l) ==
    IF recording
    THEN Only({ IF values # << >>
                THEN Append(ls, [raw_line |-> l, values |-> values])
                ELSE ls : values \in {parse_line(l)} })
    ELSE ls

\* the handle a successful serial.Serial(...) returns: an object distinct from
\* every handle that is open or referenced
FreshHandle ==
    Min({h \in 1..3 : h \notin open_handles \cup {serial_conn, new_conn}})

\* not self.serial_conn or not self.serial_conn.is_open
LinkDown == serial_conn = NoConn \/ serial_conn \notin open_handles

\* an interval check that is never satisfied: > in place of >= on a clock
\* difference that is read as at most reconnect_interval
IntervalNeverElapsed(e) == e > reconnect_interval

\* current_time - last_reconnect_attempt >= reconnect_interval
IntervalElapsed(e) == e >= reconnect_interval

\* a loop that notifies on every poll: the guard "if not disconnected" dropped
ShowDisconnectedAlways(d) == TRUE

\* if not disconnected: (guards both calls of _show_disconnected)
ShouldShowDisconnected(d) == ~d

\* the key set of the dict literal of process_line
KeyTimestamp == <<"t", "i", "m", "e", "s", "t", "a", "m", "p">>

KeyRawLine == <<"r", "a", "w", "_", "l", "i", "n", "e">>

\* datetime.now().isoformat(), kept as the text "now"
IsoNow == <<"n", "o", "w">>

\* a float held in a data point: a one-element tuple, so that it differs from
\* every text (a tuple of characters) held there
FloatField(v) == <<v>>

\* {'timestamp': ..., 'raw_line': line, **values}: the entries of values come
\* last in the literal and replace an earlier entry of the same key
DataPoint(l, values) ==
    [k \in {KeyTimestamp, KeyRawLine} \cup DOMAIN values |->
        IF k \in DOMAIN values THEN FloatField(values[k])
        ELSE IF k = KeyRawLine THEN l ELSE IsoNow]

\* dict.update(values)
DictUpdate(d, values) ==
    [k \in (DOMAIN d) \cup (DOMAIN values) |->
        IF k \in DOMAIN values THEN values[k] ELSE d[k]]

\* on_mount: connect_serial() on the main context, then the thread is started
OnMount ==
    /\ pc = "unmounted"
    /\ IF present
       THEN /\ serial_conn' = FreshHandle
            /\ open_handles' = open_handles \cup {FreshHandle}
            /\ history' = Record(history, "connect_ok")
            /\ since_fail' = reconnect_interval
       ELSE /\ history' = Record(history, "connect_fail")
            /\ since_fail' = 0
            /\ UNCHANGED <<serial_conn, open_handles>>
    /\ pc' = "while"
    /\ log_empty' = FALSE
    /\ UNCHANGED <<storeVars, asciiVars, exportVars, variantVars, parseVars,
                   lines_read, recording, running, paused,
                   disconnected, elapsed, line, new_conn, qpc, present,
                   broken_handles, last_note>>

\* a loop that ignores the running flag: while True:
LoopWhileIgnoreRunning ==
    /\ pc = "while"
    /\ pc' = "if_paused"
    /\ UNCHANGED <<storeVars, asciiVars, exportVars, variantVars, parseVars,
                   log_empty, lines_read, recording, serial_conn,
                   running, paused, disconnected, elapsed, since_fail, line, new_conn, qpc,
                   present, open_handles, broken_handles, last_note, history>>

\* while self.running:
LoopWhile ==
    /\ pc = "while"
    /\ pc' = IF running THEN "if_paused" ELSE "done"
    /\ UNCHANGED <<storeVars, asciiVars, exportVars, variantVars, parseVars,
                   log_empty, lines_read, recording, serial_conn, running,
                   paused, disconnected, elapsed, since_fail, line, new_conn, qpc,
                   present, open_handles, broken_handles, last_note, history>>

\* a loop without the paused branch: the test of self.paused dropped
LoopIfPausedIgnore ==
    /\ pc = "if_paused"
    /\ pc' = "if_conn"
    /\ UNCHANGED <<storeVars, asciiVars, exportVars, variantVars, parseVars,
                   log_empty, lines_read, recording, serial_conn, running,
                   paused, disconnected, elapsed, since_fail, line, new_conn, qpc,
                   present, open_handles, broken_handles, last_note, history>>

\* if self.paused: time.sleep(0.1); continue
LoopIfPaused ==
    /\ pc = "if_paused"
    /\ pc' = IF paused THEN "paused_sleep" ELSE "if_conn"
    /\ UNCHANGED <<storeVars, asciiVars, exportVars, variantVars, parseVars,
                   log_empty, lines_read, recording, serial_conn, running,
                   paused, disconnected, elapsed, since_fail, line, new_conn, qpc,
                   present, open_handles, broken_handles, last_note, history>>

\* the connection check and the interval check of the reconnect branch, up to
\* the call of _show_disconnected or _try_reconnect
LoopCheckConn ==
    /\ pc = "if_conn"
    /\ IF LinkDown
       THEN IF IntervalElapsed(elapsed)
            THEN /\ elapsed' = 0
                 /\ IF ShouldShowDisconnected(disconnected)
                    THEN disconnected' = TRUE /\ pc' = "show_disconnected_poll"
                    ELSE disconnected' = disconnected /\ pc' = "try_reconnect"
            ELSE /\ pc' = "sleep"
                 /\ UNCHANGED <<elapsed, disconnected>>
       ELSE /\ pc' = "read"
            /\ UNCHANGED <<elapsed, disconnected>>
    /\ UNCHANGED since_fail
    /\ UNCHANGED <<storeVars, asciiVars, exportVars, variantVars, parseVars,
                   log_empty, lines_read, recording, serial_conn, running,
                   paused, line, new_conn, qpc, present, open_handles,
                   broken_handles, last_note, history>>

\* self.call_from_thread(self._show_disconnected), in the reconnect branch
LoopShowDisconnectedPoll ==
    /\ pc = "show_disconnected_poll"
    /\ last_note' = "show_disconnected"
    /\ history' = Record(history, "show_disconnected")
    /\ pc' = "try_reconnect"
    /\ log_empty' = FALSE
    /\ UNCHANGED <<storeVars, asciiVars, exportVars, variantVars, parseVars,
                   lines_read, recording, serial_conn, running,
                   paused, disconnected, elapsed, since_fail, line, new_conn, qpc,
                   present, open_handles, broken_handles>>

\* _try_reconnect: serial.Serial(...) returns a handle or raises
TryReconnectOpen ==
    /\ pc = "try_reconnect"
    /\ IF present
       THEN /\ new_conn' = FreshHandle
            /\ open_handles' = open_handles \cup {FreshHandle}
            /\ history' = Record(history, "connect_ok")
            /\ since_fail' = reconnect_interval
            /\ pc' = "assign_conn"
       ELSE /\ history' = Record(history, "connect_fail")
            /\ since_fail' = 0
            /\ pc' = "sleep"
            /\ UNCHANGED <<new_conn, open_handles>>
    /\ UNCHANGED <<storeVars, asciiVars, exportVars, variantVars, parseVars,
                   log_empty, lines_read, recording, serial_conn, running,
                   paused, disconnected, elapsed, line, qpc, present,
                   broken_handles, last_note>>

\* a reconnect that starts the session over: the collected data is dropped
\* when the new handle is assigned
TryReconnectAssignReset ==
    /\ pc = "assign_conn"
    /\ serial_conn' = new_conn
    /\ new_conn' = NoConn
    /\ disconnected' = FALSE
    /\ pc' = "show_reconnected"
    /\ session_data' = << >>
    /\ all_labels' = {}
    /\ data_series' = << >>
    /\ timestamps' = << >>
    /\ sample_count' = 0
    /\ first_tick' = << >>
    /\ UNCHANGED <<max_points, asciiVars, current_values, variantVars,
                   parseVars, log_empty, lines_read, recording, running,
                   paused, elapsed, since_fail, line, qpc, present, open_handles,
                   broken_handles, last_note, history>>

\* _try_reconnect: self.serial_conn = <the handle>; return True; and
\* disconnected = False in the loop
TryReconnectAssign ==
    /\ pc = "assign_conn"
    /\ serial_conn' = new_conn
    /\ new_conn' = NoConn
    /\ disconnected' = FALSE
    /\ pc' = "show_reconnected"
    /\ UNCHANGED <<storeVars, asciiVars, exportVars, variantVars, parseVars,
                   log_empty, lines_read, recording, running, paused, elapsed, since_fail,
                   line, qpc, present, open_handles, broken_handles, last_note,
                   history>>

\* self.call_from_thread(self._show_reconnected)
LoopShowReconnected ==
    /\ pc = "show_reconnected"
    /\ last_note' = "show_reconnected"
    /\ history' = Record(history, "show_reconnected")
    /\ pc' = "sleep"
    /\ log_empty' = FALSE
    /\ UNCHANGED <<storeVars, asciiVars, exportVars, variantVars, parseVars,
                   lines_read, recording, serial_conn, running,
                   paused, disconnected, elapsed, since_fail, line, new_conn, qpc,
                   present, open_handles, broken_handles>>

\* the except SerialException / except OSError handlers up to the call of
\* _show_disconnected
LinkErrorRaised ==
    /\ history' = Record(history, "read_fail")
    /\ IF ShouldShowDisconnected(disconnected)
       THEN disconnected' = TRUE /\ pc' = "show_disconnected_read"
       ELSE disconnected' = disconnected /\ pc' = "close_failed"
    /\ UNCHANGED <<line, lines_read>>

\* a try block that treats "no data available" as a lost device
LoopReadNoDataIsLoss ==
    /\ pc = "read"
    /\ IF serial_conn \in open_handles
       THEN IF serial_conn \in broken_handles
            THEN LinkErrorRaised
            ELSE \/ LinkErrorRaised
                 \/ /\ Len(session_data) < MaxLines
                    /\ \E stripped \in ReadLines :
                         /\ history' = Record(history, "read_ok")
                         /\ lines_read' = RecordLine(lines_read, stripped)
                         /\ IF stripped # << >>
                            THEN line' = stripped /\ pc' = "call_process_line"
                            ELSE line' = line /\ pc' = "sleep"
                    /\ UNCHANGED disconnected
       ELSE \/ LinkErrorRaised
            \/ /\ pc' = "log_error"
               /\ UNCHANGED <<disconnected, line, history, lines_read>>
    /\ UNCHANGED <<storeVars, asciiVars, exportVars, variantVars, parseVars,
                   log_empty, recording, serial_conn, running,
                   paused, elapsed, since_fail, new_conn, qpc, present, open_handles,
                   broken_handles, last_note>>

\* the try block: in_waiting, readline().decode().strip(), if line:
LoopRead ==
    /\ pc = "read"
    /\ IF serial_conn \in open_handles
       THEN IF serial_conn \in broken_handles
            THEN \* the device is gone: SerialException or OSError
                 LinkErrorRaised
            ELSE \/ \* in_waiting is 0
                    /\ pc' = "sleep"
                    /\ UNCHANGED <<disconnected, line, history, lines_read>>
                 \/ \* a line is read
                    /\ Len(session_data) < MaxLines
                    /\ \E stripped \in ReadLines :
                         /\ history' = Record(history, "read_ok")
                         /\ lines_read' = RecordLine(lines_read, stripped)
                         /\ IF stripped # << >>
                            THEN line' = stripped /\ pc' = "call_process_line"
                            ELSE line' = line /\ pc' = "sleep"
                    /\ UNCHANGED disconnected
       ELSE \* the handle was closed by action_quit: the access raises
            \/ LinkErrorRaised
            \/ /\ pc' = "log_error"
               /\ UNCHANGED <<disconnected, line, history, lines_read>>
    /\ UNCHANGED <<storeVars, asciiVars, exportVars, variantVars, parseVars,
                   log_empty, recording, serial_conn, running,
                   paused, elapsed, since_fail, new_conn, qpc, present, open_handles,
                   broken_handles, last_note>>

\* self.call_from_thread(self._show_disconnected), in an except handler
LoopShowDisconnectedRead ==
    /\ pc = "show_disconnected_read"
    /\ last_note' = "show_disconnected"
    /\ history' = Record(history, "show_disconnected")
    /\ pc' = "close_failed"
    /\ log_empty' = FALSE
    /\ UNCHANGED <<storeVars, asciiVars, exportVars, variantVars, parseVars,
                   lines_read, recording, serial_conn, running,
                   paused, disconnected, elapsed, since_fail, line, new_conn, qpc,
                   present, open_handles, broken_handles>>

\* an except handler that closes the failed handle but keeps the reference
LoopCloseFailedKeep ==
    /\ pc = "close_failed"
    /\ open_handles' = open_handles \ {serial_conn}
    /\ broken_handles' = broken_handles \ {serial_conn}
    /\ pc' = "sleep"
    /\ UNCHANGED <<storeVars, asciiVars, exportVars, variantVars, parseVars,
                   log_empty, lines_read, recording, running, paused,
                   disconnected, elapsed, since_fail, line, new_conn, qpc,
                   present, last_note, history, serial_conn>>

\* try: self.serial_conn.close() ... ; self.serial_conn = None
LoopCloseFailed ==
    /\ pc = "close_failed"
    /\ open_handles' = open_handles \ {serial_conn}
    /\ broken_handles' = broken_handles \ {serial_conn}
    /\ serial_conn' = NoConn
    /\ pc' = "sleep"
    /\ UNCHANGED <<storeVars, asciiVars, exportVars, variantVars, parseVars,
                   log_empty, lines_read, recording, running, paused,
                   disconnected, elapsed, since_fail, line, new_conn, qpc,
                   present, last_note, history>>

\* except Exception: call_from_thread(log.write, ...)
LoopLogError ==
    /\ pc = "log_error"
    /\ pc' = "sleep"
    /\ log_empty' = FALSE
    /\ UNCHANGED <<storeVars, asciiVars, exportVars, variantVars, parseVars,
                   lines_read, recording, serial_conn, running,
                   paused, disconnected, elapsed, since_fail, line, new_conn, qpc,
                   present, open_handles, broken_handles, last_note, history>>

\* time.sleep(...) at the end of an iteration or before continue
LoopSleep ==
    /\ pc = "sleep"
    /\ pc' = "while"
    /\ UNCHANGED <<storeVars, asciiVars, exportVars, variantVars, parseVars,
                   log_empty, lines_read, recording, serial_conn, running,
                   paused, disconnected, elapsed, since_fail, line, new_conn, qpc,
                   present, open_handles, broken_handles, last_note, history>>

\* time.sleep(0.1); continue of the paused branch
LoopPausedSleep ==
    /\ pc = "paused_sleep"
    /\ pc' = "while"
    /\ UNCHANGED <<storeVars, asciiVars, exportVars, variantVars, parseVars,
                   log_empty, lines_read, recording, serial_conn, running,
                   paused, disconnected, elapsed, since_fail, line, new_conn, qpc,
                   present, open_handles, broken_handles, last_note, history>>

\* time passes: time.time() grows by one second
Tick ==
    /\ elapsed < reconnect_interval \/ since_fail < reconnect_interval
    /\ elapsed' = Min({elapsed + 1, reconnect_interval})
    /\ since_fail' = Min({since_fail + 1, reconnect_interval})
    /\ UNCHANGED <<storeVars, asciiVars, exportVars, variantVars, parseVars,
                   log_empty, lines_read, recording, serial_conn, running,
                   paused, pc, disconnected, line, new_conn, qpc, present,
                   open_handles, broken_handles, last_note, history>>

\* one of the three programs has been started
Started == pc # "unmounted" \/ tui_pc # "unmounted" \/ sp_pc # "unconnected"

\* the device is unplugged: every open handle fails from now on
Unplug ==
    /\ Started
    /\ present
    /\ present' = FALSE
    /\ broken_handles' = open_handles
    /\ UNCHANGED <<storeVars, asciiVars, exportVars, variantVars, parseVars,
                   log_empty, lines_read, recording, serial_conn, running,
                   paused, pc, disconnected, elapsed, since_fail, line, new_conn, qpc,
                   open_handles, last_note, history>>

\* the device is plugged in again
Replug ==
    /\ Started
    /\ ~present
    /\ present' = TRUE
    /\ UNCHANGED <<storeVars, asciiVars, exportVars, variantVars, parseVars,
                   log_empty, lines_read, recording, serial_conn, running,
                   paused, pc, disconnected, elapsed, since_fail, line, new_conn, qpc,
                   open_handles, broken_handles, last_note, history>>

\* a process_line that exports the batch but does not pass it to the graph
ProcessLineDropSample ==
    /\ pc = "call_process_line"
    /\ qpc \in {"idle", "exited"}
    /\ \E values \in {parse_line(line)} :
          IF values # << >>
          THEN /\ session_data' = Append(session_data, DataPoint(line, values))
               /\ all_labels' = all_labels \cup DOMAIN values
               /\ current_values' = DictUpdate(current_values, values)
               /\ UNCHANGED storeVars
          ELSE UNCHANGED <<storeVars, exportVars>>
    /\ line' = << >>
    /\ pc' = "sleep"
    /\ log_empty' = FALSE
    /\ UNCHANGED <<asciiVars, variantVars, parseVars, lines_read, recording,
                   serial_conn, running, paused, disconnected,
                   elapsed, since_fail, new_conn, qpc, present, open_handles,
                   broken_handles, last_note, history>>

\* a process_line that passes every batch to the graph, the empty one too
ProcessLineAlwaysTick ==
    /\ pc = "call_process_line"
    /\ qpc \in {"idle", "exited"}
    /\ \E values \in {parse_line(line)} :
          IF values # << >>
          THEN /\ session_data' = Append(session_data, DataPoint(line, values))
               /\ all_labels' = all_labels \cup DOMAIN values
               /\ current_values' = DictUpdate(current_values, values)
               /\ add_values(values)
          ELSE add_values(values) /\ UNCHANGED exportVars
    /\ line' = << >>
    /\ pc' = "sleep"
    /\ log_empty' = FALSE
    /\ UNCHANGED <<asciiVars, variantVars, parseVars, lines_read, recording,
                   serial_conn, running, paused, disconnected,
                   elapsed, since_fail, new_conn, qpc, present, open_handles,
                   broken_handles, last_note, history>>

\* a process_line that does not add the names of the batch to all_labels
ProcessLineNoLabels ==
    /\ pc = "call_process_line"
    /\ qpc \in {"idle", "exited"}
    /\ \E values \in {parse_line(line)} :
          IF values # << >>
          THEN /\ session_data' = Append(session_data, DataPoint(line, values))
               /\ all_labels' = all_labels
               /\ current_values' = DictUpdate(current_values, values)
               /\ add_values(values)
          ELSE UNCHANGED <<storeVars, exportVars>>
    /\ line' = << >>
    /\ pc' = "sleep"
    /\ log_empty' = FALSE
    /\ UNCHANGED <<asciiVars, variantVars, parseVars, lines_read, recording,
                   serial_conn, running, paused, disconnected,
                   elapsed, since_fail, new_conn, qpc, present, open_handles,
                   broken_handles, last_note, history>>

\* process_line(line), run on the main context for call_from_thread, which
\* returns to the thread afterwards
ProcessLine ==
    /\ pc = "call_process_line"
    /\ qpc \in {"idle", "exited"}
    /\ \E values \in {parse_line(line)} :
          IF values # << >>
          THEN /\ session_data' = Append(session_data, DataPoint(line, values))
               /\ all_labels' = all_labels \cup DOMAIN values
               /\ current_values' = DictUpdate(current_values, values)
               /\ add_values(values)
          ELSE UNCHANGED <<storeVars, exportVars>>
    /\ line' = << >>
    /\ pc' = "sleep"
    /\ log_empty' = FALSE
    /\ UNCHANGED <<asciiVars, variantVars, parseVars, lines_read, recording,
                   serial_conn, running, paused, disconnected,
                   elapsed, since_fail, new_conn, qpc, present, open_handles,
                   broken_handles, last_note, history>>

\* action_pause
ActionPause ==
    /\ pc # "unmounted"
    /\ qpc = "idle"
    /\ paused' = ~paused
    /\ log_empty' = FALSE
    /\ UNCHANGED <<storeVars, asciiVars, exportVars, variantVars, parseVars,
                   lines_read, recording, serial_conn, running, pc,
                   disconnected, elapsed, since_fail, line, new_conn, qpc,
                   present, open_handles, broken_handles, last_note, history>>

\* action_clear: log.clear()
ActionClear ==
    /\ pc # "unmounted"
    /\ qpc = "idle"
    /\ log_empty' = TRUE
    /\ UNCHANGED <<storeVars, asciiVars, exportVars, variantVars, parseVars,
                   lines_read, recording, serial_conn, running, paused, pc,
                   disconnected, elapsed, since_fail, line, new_conn, qpc,
                   present, open_handles, broken_handles, last_note, history>>

\* action_quit: self.running = False
ActionQuitStop ==
    /\ pc # "unmounted"
    /\ qpc = "idle"
    /\ running' = FALSE
    /\ qpc' = "quit_if"
    /\ UNCHANGED <<storeVars, asciiVars, exportVars, variantVars, parseVars,
                   log_empty, lines_read, recording, serial_conn, paused, pc,
                   disconnected, elapsed, since_fail, line, new_conn, present,
                   open_handles, broken_handles, last_note, history>>

\* action_quit: if self.serial_conn: ... else: self.exit()
ActionQuitIf ==
    /\ qpc = "quit_if"
    /\ qpc' = IF serial_conn # NoConn THEN "quit_close" ELSE "exited"
    /\ UNCHANGED <<storeVars, asciiVars, exportVars, variantVars, parseVars,
                   log_empty, lines_read, recording, serial_conn, running,
                   paused, pc, disconnected, elapsed, since_fail, line, new_conn, present,
                   open_handles, broken_handles, last_note, history>>

\* action_quit: self.serial_conn.close(); self.exit().  When the thread has
\* set serial_conn to None meanwhile the attribute access raises and the
\* handler ends there.
ActionQuitClose ==
    /\ qpc = "quit_close"
    /\ open_handles' = open_handles \ {serial_conn}
    /\ broken_handles' = broken_handles \ {serial_conn}
    /\ qpc' = "exited"
    /\ UNCHANGED <<storeVars, asciiVars, exportVars, variantVars, parseVars,
                   log_empty, lines_read, recording, serial_conn, running,
                   paused, pc, disconnected, elapsed, since_fail, line, new_conn, present,
                   last_note, history>>

\* the steps of the background thread
Loop ==
    \/ LoopWhile
    \/ LoopIfPaused
    \/ LoopCheckConn
    \/ LoopShowDisconnectedPoll
    \/ TryReconnectOpen
    \/ TryReconnectAssign
    \/ LoopShowReconnected
    \/ LoopRead
    \/ LoopShowDisconnectedRead
    \/ LoopCloseFailed
    \/ LoopLogError
    \/ LoopSleep
    \/ LoopPausedSleep

\* the steps of action_quit
ActionQuit == ActionQuitStop \/ ActionQuitIf \/ ActionQuitClose

Next ==
    \/ OnMount
    \/ Loop
    \/ Tick
    \/ Unplug
    \/ Replug
    \/ ProcessLine
    \/ ActionPause
    \/ ActionClear
    \/ ActionQuit

Spec == AppInit /\ [][Next]_vars

\* the thread is scheduled, time passes, and the main context runs the
\* callbacks and handlers it has started
Fairness ==
    /\ WF_vars(OnMount)
    /\ WF_vars(Loop)
    /\ WF_vars(Tick)
    /\ WF_vars(ProcessLine)
    /\ WF_vars(ActionQuitIf \/ ActionQuitClose)

LiveSpec == LiveInit /\ [][Next]_vars /\ Fairness

\* ------------------------------------------------ StoreSpec: the store alone
\* PlotextGraph.add_values called directly, in a run of SerialPlotterTUI.py
GraphAddValues ==
    /\ ascii_count = 0
    /\ sample_count < MaxTicks
    /\ \E values \in Batches : add_values(values)
    /\ UNCHANGED <<asciiVars, exportVars, appVars, variantVars, parseVars>>

\* AsciiGraph.add_values called directly, in a run of serial_plotter_tui.py
AsciiAddValues ==
    /\ sample_count = 0
    /\ ascii_count < MaxAsciiTicks
    /\ \E values \in Batches : ascii_add_values(values)
    /\ UNCHANGED <<storeVars, exportVars, appVars, variantVars, parseVars>>

StoreNext == GraphAddValues \/ AsciiAddValues

StoreSpec == Init /\ [][StoreNext]_vars

\* --------------------------- serial_plotter_tui.py and serial_plotter.py
\* the variables the two variants leave alone
mainOnlyVars == <<storeVars, session_data, all_labels, pc, disconnected,
                  elapsed, since_fail, new_conn, qpc, present, recording, last_note,
                  history, lines_read, parseVars>>

\* on_mount of serial_plotter_tui.py: connect_serial(), then the thread is
\* started
TuiOnMount ==
    /\ pc = "unmounted"
    /\ tui_pc = "unmounted"
    /\ sp_pc = "unconnected"
    /\ IF present
       THEN /\ serial_conn' = FreshHandle
            /\ open_handles' = open_handles \cup {FreshHandle}
       ELSE UNCHANGED <<serial_conn, open_handles>>
    /\ log_empty' = FALSE
    /\ tui_pc' = "while"
    /\ UNCHANGED <<mainOnlyVars, asciiVars, current_values, running, paused,
                   line, broken_handles, sp_pc, sp_values>>

\* while self.running:
TuiLoopWhile ==
    /\ tui_pc = "while"
    /\ tui_pc' = IF running THEN "if_paused" ELSE "done"
    /\ UNCHANGED <<mainOnlyVars, asciiVars, current_values, serial_conn,
                   running, paused, line, log_empty, open_handles,
                   broken_handles, sp_pc, sp_values>>

\* if self.paused: time.sleep(0.1); continue
TuiLoopIfPaused ==
    /\ tui_pc = "if_paused"
    /\ tui_pc' = IF paused THEN "sleep" ELSE "in_waiting"
    /\ UNCHANGED <<mainOnlyVars, asciiVars, current_values, serial_conn,
                   running, paused, line, log_empty, open_handles,
                   broken_handles, sp_pc, sp_values>>

\* if self.serial_conn and self.serial_conn.in_waiting: (outside the try
\* block: an error of in_waiting leaves read_serial_loop)
TuiLoopInWaiting ==
    /\ tui_pc = "in_waiting"
    /\ IF serial_conn = NoConn
       THEN tui_pc' = "sleep"
       ELSE IF serial_conn \notin open_handles \/ serial_conn \in broken_handles
            THEN tui_pc' = "raised"
            ELSE \/ tui_pc' = "sleep"
                 \/ ascii_count < MaxAsciiTicks /\ tui_pc' = "readline"
    /\ UNCHANGED <<mainOnlyVars, asciiVars, current_values, serial_conn,
                   running, paused, line, log_empty, open_handles,
                   broken_handles, sp_pc, sp_values>>

\* the try block: readline().decode().strip(), if line:
TuiLoopReadline ==
    /\ tui_pc = "readline"
    /\ IF serial_conn \notin open_handles \/ serial_conn \in broken_handles
       THEN tui_pc' = "log_error" /\ line' = line
       ELSE \E stripped \in ReadLines :
               IF stripped # << >>
               THEN line' = stripped /\ tui_pc' = "call_process_line"
               ELSE line' = line /\ tui_pc' = "sleep"
    /\ UNCHANGED <<mainOnlyVars, asciiVars, current_values, serial_conn,
                   running, paused, log_empty, open_handles, broken_handles,
                   sp_pc, sp_values>>

\* process_line(line) of serial_plotter_tui.py, run on the main context
TuiProcessLine ==
    /\ tui_pc = "call_process_line"
    /\ \E values \in {parse_line(line)} :
          IF values # << >>
          THEN /\ current_values' = DictUpdate(current_values, values)
               /\ ascii_add_values(values)
          ELSE UNCHANGED <<asciiVars, current_values>>
    /\ line' = << >>
    /\ log_empty' = FALSE
    /\ tui_pc' = "sleep"
    /\ UNCHANGED <<mainOnlyVars, serial_conn, running, paused, open_handles,
                   broken_handles, sp_pc, sp_values>>

\* except Exception: call_from_thread(log.write, ...)
TuiLoopLogError ==
    /\ tui_pc = "log_error"
    /\ log_empty' = FALSE
    /\ tui_pc' = "sleep"
    /\ UNCHANGED <<mainOnlyVars, asciiVars, current_values, serial_conn,
                   running, paused, line, open_handles, broken_handles,
                   sp_pc, sp_values>>

\* time.sleep(...) of the paused branch or at the end of an iteration
TuiLoopSleep ==
    /\ tui_pc = "sleep"
    /\ tui_pc' = "while"
    /\ UNCHANGED <<mainOnlyVars, asciiVars, current_values, serial_conn,
                   running, paused, line, log_empty, open_handles,
                   broken_handles, sp_pc, sp_values>>

\* action_pause of serial_plotter_tui.py
TuiActionPause ==
    /\ tui_pc # "unmounted"
    /\ running
    /\ paused' = ~paused
    /\ log_empty' = FALSE
    /\ UNCHANGED <<mainOnlyVars, asciiVars, current_values, serial_conn,
                   running, line, open_handles, broken_handles, variantVars>>

\* action_quit of serial_plotter_tui.py: running = False, close, exit (the
\* thread of this variant never writes serial_conn)
TuiActionQuit ==
    /\ tui_pc # "unmounted"
    /\ running
    /\ running' = FALSE
    /\ open_handles' = open_handles \ {serial_conn}
    /\ broken_handles' = broken_handles \ {serial_conn}
    /\ UNCHANGED <<mainOnlyVars, asciiVars, current_values, serial_conn,
                   paused, line, log_empty, variantVars>>

\* the steps of read_serial_loop of serial_plotter_tui.py
TuiLoop ==
    \/ TuiLoopWhile
    \/ TuiLoopIfPaused
    \/ TuiLoopInWaiting
    \/ TuiLoopReadline
    \/ TuiLoopLogError
    \/ TuiLoopSleep

\* run of serial_plotter.py: connect(); the animation starts when it
\* succeeded
SpConnect ==
    /\ pc = "unmounted"
    /\ tui_pc = "unmounted"
    /\ sp_pc = "unconnected"
    /\ IF present
       THEN /\ serial_conn' = FreshHandle
            /\ open_handles' = open_handles \cup {FreshHandle}
            /\ sp_pc' = "idle"
       ELSE /\ sp_pc' = "ended"
            /\ UNCHANGED <<serial_conn, open_handles>>
    /\ UNCHANGED <<mainOnlyVars, asciiVars, current_values, running, paused,
                   line, log_empty, broken_handles, tui_pc, sp_values>>

\* read_serial_data: if self.serial_conn and self.serial_conn.in_waiting:
\* (outside the try block), else return {}
SpInWaiting ==
    /\ sp_pc = "idle"
    /\ IF serial_conn \in broken_handles
       THEN sp_pc' = "raised" /\ sp_values' = sp_values
       ELSE \/ sp_pc' = "idle" /\ sp_values' = << >>
            \/ sp_pc' = "readline" /\ sp_values' = sp_values
    /\ UNCHANGED <<mainOnlyVars, asciiVars, current_values, serial_conn,
                   running, paused, line, log_empty, open_handles,
                   broken_handles, tui_pc>>

\* read_serial_data: the try block, return self.parse_line(line); after an
\* exception print(...) and return {}
SpReadline ==
    /\ sp_pc = "readline"
    /\ IF serial_conn \in broken_handles
       THEN sp_values' = << >>
       ELSE \E raw \in DeviceLines : sp_values' = sp_parse_line(raw)
    /\ sp_pc' = "idle"
    /\ UNCHANGED <<mainOnlyVars, asciiVars, current_values, serial_conn,
                   running, paused, line, log_empty, open_handles,
                   broken_handles, tui_pc>>

VariantNext ==
    \/ TuiOnMount
    \/ TuiLoop
    \/ TuiProcessLine
    \/ TuiActionPause
    \/ TuiActionQuit
    \/ SpConnect
    \/ SpInWaiting
    \/ SpReadline
    \/ Unplug
    \/ Replug

VariantSpec == Init /\ [][VariantNext]_vars

\* ------------------------------------------- ParseSpec: parse_line alone
\* the fields the lines passed to parse_line are built from: "a:1", "a=2",
\* "b:3", "7", "x9", "x" and the empty field
ParseFields ==
    { <<"a", ":", "1">>, <<"a", "=", "2">>, <<"b", ":", "3">>, <<"7">>,
      <<"x", "9">>, <<"x">>, << >> }

\* the separators between two fields
FieldSeps == {",", " "}

RECURSIVE LinesOf(_)
\* the lines of n fields
LinesOf(n) ==
    IF n = 1 THEN ParseFields
    ELSE { l \o <<s>> \o f : l \in LinesOf(n - 1), s \in FieldSeps, f \in ParseFields }

\* the lines of one to MaxFields fields
ParseInputs == UNION { LinesOf(n) : n \in 1..MaxFields }

\* parse_line reads nothing but its argument: the application is the one
\* constructed with the largest capacity
ParseInit ==
    /\ InitStore
    /\ max_points = MaxPoints
    /\ InitApp
    /\ InitVariant
    /\ InitParse
    /\ parse_input \in ParseInputs
    /\ recording = TRUE

\* values = self.parse_line(line) of SerialPlotterTUI.py
ParseLine ==
    /\ "tui" \notin parsed
    /\ parse_output' = parse_line(parse_input)
    /\ parsed' = parsed \cup {"tui"}
    /\ UNCHANGED <<storeVars, asciiVars, exportVars, appVars, variantVars,
                   parse_input, kanal_output>>

\* values = self.parse_line(line) of serial_plotter.py
SpParseLine ==
    /\ "sp" \notin parsed
    /\ kanal_output' = sp_parse_line(parse_input)
    /\ parsed' = parsed \cup {"sp"}
    /\ UNCHANGED <<storeVars, asciiVars, exportVars, appVars, variantVars,
                   parse_input, parse_output>>

ParseNext == ParseLine \/ SpParseLine

ParseSpec == ParseInit /\ [][ParseNext]_vars

\* ------------------------------------------------------------------ claims
\* the link notifications of a history, in order
Notes(h) ==
    SelectSeq(h, LAMBDA e : e \in {"show_disconnected", "show_reconnected"})

\* the connect/read outcomes of a history, in order
Outcomes(h) ==
    SelectSeq(h, LAMBDA e : e \in {"connect_ok", "connect_fail",
                                   "read_ok", "read_fail"})

\* C1 (as stated): after every add_values, of PlotextGraph and of AsciiGraph,
\* all series of the store have the same length.
C1_SameLength ==
    /\ \A a, b \in DOMAIN data_series :
          Len(data_series[a]) = Len(data_series[b])
    /\ \A a, b \in DOMAIN ascii_series :
          Len(ascii_series[a]) = Len(ascii_series[b])

\* C2 (amended): at every point the length of a name's series is the number
\* of ticks since the name first appeared, sample_count - first tick + 1, or
\* max_points where that number exceeds the capacity.
C2_SeriesLength ==
    \A label \in DOMAIN data_series :
        Len(data_series[label]) =
            Min({max_points, sample_count - first_tick[label] + 1})

\* C2 (as stated): the length of a name's series is sample_count - first
\* tick + 1.
C2_LengthUncapped ==
    \A label \in DOMAIN data_series :
        Len(data_series[label]) = sample_count - first_tick[label] + 1

\* a name that appeared after the first tick has been tracked for more ticks
\* than the capacity, so slots of its series were evicted
C2_Witness ==
    \E label \in DOMAIN data_series :
        /\ first_tick[label] > 1
        /\ max_points > 0
        /\ sample_count - first_tick[label] + 1 > max_points

\* C3 (as stated): once capacity + 1 batches have been applied the oldest tick
\* is evicted and every tracked series has length max_points.
C3_SlidingWindow ==
    sample_count > max_points =>
        /\ \A i \in 1..Len(timestamps) : timestamps[i] # 1
        /\ \A label \in DOMAIN data_series :
              Len(data_series[label]) = max_points

\* C4: _show_disconnected is scheduled exactly once per loss of the link:
\* it is never scheduled when the last notification was _show_disconnected,
\* between two of them there is a _show_reconnected, every failed read is
\* followed by one, and the outcomes (connect success, read success, read
\* fail, reconnect success) yield one _show_disconnected, after the failed
\* read, then one _show_reconnected, after the reconnect.
C4_OncePerLoss ==
    /\ pc \in {"show_disconnected_poll", "show_disconnected_read"}
          => last_note # "show_disconnected"
    /\ \A i, j \in 1..Len(Notes(history)) :
          (i < j /\ Notes(history)[i] = "show_disconnected"
                 /\ Notes(history)[j] = "show_disconnected")
              => \E k \in (i + 1)..(j - 1) :
                     Notes(history)[k] = "show_reconnected"
    /\ \A i \in 1..Len(history) :
          history[i] = "read_fail" =>
              IF i < Len(history) THEN history[i + 1] = "show_disconnected"
              ELSE Len(history) < MaxHistory => pc = "show_disconnected_read"
    /\ (/\ Len(Outcomes(history)) >= 4
        /\ SubSeq(Outcomes(history), 1, 4)
              = <<"connect_ok", "read_ok", "read_fail", "connect_ok">>)
          => /\ SubSeq(history, 1, 5)
                  = <<"connect_ok", "read_ok", "read_fail",
                      "show_disconnected", "connect_ok">>
             /\ IF Len(history) >= 6 THEN history[6] = "show_reconnected"
                ELSE pc \in {"assign_conn", "show_reconnected"}

\* the scenario of C4 has run: connect, read, failed read, notification,
\* reconnect, notification
C4_Witness ==
    /\ Len(history) >= 6
    /\ SubSeq(history, 1, 6)
          = <<"connect_ok", "read_ok", "read_fail", "show_disconnected",
              "connect_ok", "show_reconnected">>

\* C5 (as stated): every _show_disconnected follows a state in which the link
\* was Connected, a handle having been opened since the previous
\* _show_disconnected, and every _show_reconnected follows a state in which
\* the link was Disconnected, also when the connect of on_mount failed.
C5_EdgeTriggered ==
    \A i \in 1..Len(history) :
        /\ history[i] = "show_disconnected" =>
              \E j \in 1..(i - 1) :
                  /\ history[j] = "connect_ok"
                  /\ \A k \in (j + 1)..(i - 1) :
                        history[k] # "show_disconnected"
        /\ history[i] = "show_reconnected" =>
              \E j \in 1..(i - 1) :
                  /\ history[j] = "show_disconnected"
                  /\ \A k \in (j + 1)..(i - 1) :
                        history[k] # "show_reconnected"

\* C6: a link transition (a failed read, the close of the failed handle, a
\* failed or successful reconnect attempt, a link notification) leaves
\* data_series, timestamps, sample_count, session_data and all_labels as
\* they were.
C6_TransitionKeepsData ==
    [][(\/ serial_conn' # serial_conn
        \/ open_handles' # open_handles
        \/ disconnected' # disconnected
        \/ last_note' # last_note
        \/ history' # history
        \/ (pc = "try_reconnect" /\ pc' # pc))
          => UNCHANGED <<data_series, timestamps, sample_count, session_data,
                         all_labels>>]_vars

\* samples were collected, the link was lost and restored, and the samples
\* are still there
C6_Witness ==
    /\ sample_count > 0
    /\ Len(timestamps) > 0
    /\ session_data # << >>
    /\ last_note = "show_reconnected"
    /\ ~LinkDown

\* C7: whenever the link is down, then eventually the link is Connected
\* (serial_conn is an open handle), unless the loop is stopped, is paused or
\* the port cannot be opened at some later moment; however many attempts
\* failed before.
C7_ReconnectEventually ==
    (pc # "unmounted" /\ LinkDown)
        ~> (~LinkDown \/ ~running \/ paused \/ ~present)

\* the loop has restored a lost link and is running
C7_Witness ==
    /\ ~LinkDown
    /\ last_note = "show_reconnected"
    /\ running
    /\ ~paused
    /\ present

\* C8 (as stated): once the loop has exited and action_quit has returned no
\* handle the application opened is still open.
C8_NoHandleLeft ==
    (pc = "done" /\ qpc = "exited") => open_handles = {}

\* C9: once running is False the loop eventually terminates.
C9_LoopTerminates == (~running) ~> (pc = "done")

\* the loop has terminated out of the paused and disconnected state
C9_Witness ==
    /\ pc = "done"
    /\ ~running
    /\ paused
    /\ disconnected

\* C10 (as stated): add_values is never executed in a state where paused is
\* true.
C10_NoSampleWhilePaused ==
    [][sample_count' # sample_count => ~paused]_vars

\* C11: an iteration of read_serial_loop that observes paused = true goes
\* from the test of paused to its sleep and back to the loop head, and on the
\* way performs no read and no open, schedules no notification and leaves
\* serial_conn, the open handles, disconnected and the time of the last
\* reconnect attempt as they were.
C11_PausedIterationIdle ==
    [][/\ (pc = "if_paused" /\ paused /\ pc' # pc)
            => /\ pc' = "paused_sleep"
               /\ UNCHANGED <<serial_conn, new_conn, open_handles,
                              disconnected, elapsed, last_note, history,
                              line, lines_read>>
       /\ (pc = "paused_sleep" /\ pc' # pc)
            => /\ pc' = "while"
               /\ UNCHANGED <<serial_conn, new_conn, open_handles,
                              disconnected, elapsed, last_note, history,
                              line, lines_read>>]_vars

\* the loop idles in its paused sleep while the device of its handle is
\* gone and the loss is not detected
C11_Witness ==
    /\ pc = "paused_sleep"
    /\ paused
    /\ serial_conn \in broken_handles
    /\ ~disconnected

\* C12: the batches reach the store in the order their lines were read, one
\* tick per line: sample_count is the number of lines processed, every line
\* read is processed or is the one being handed over, the ticks of the
\* window are consecutive, and the slot of a series at tick t holds the
\* value of the t-th line read (the missing marker when that line has no
\* value for the name).
C12_ReadOrder ==
    /\ sample_count = Len(session_data)
    /\ \/ Len(lines_read) = sample_count
       \/ /\ Len(lines_read) = sample_count + 1
          /\ pc = "call_process_line"
          /\ lines_read[Len(lines_read)].raw_line = line
    /\ Len(timestamps) = Min({max_points, sample_count})
    /\ \A j \in 1..Len(timestamps) :
          timestamps[j] = sample_count - Len(timestamps) + j
    /\ \A label \in DOMAIN data_series :
          \A j \in 1..Len(data_series[label]) :
              LET batch == lines_read[sample_count
                                        - Len(data_series[label]) + j].values
              IN  data_series[label][j] =
                      IF label \in DOMAIN batch THEN Some(batch[label])
                      ELSE None

\* two different lines were read and processed, and both are in the window
C12_Witness ==
    /\ Len(lines_read) = 2
    /\ sample_count = 2
    /\ lines_read[1].raw_line # lines_read[2].raw_line
    /\ Len(timestamps) = 2

\* C13 (as stated): while the loop is running, serial_conn is assigned and
\* handles are opened and closed by steps of the loop only, never by a
\* step of the main context.
C13_LoopOwnsHandle ==
    [][(/\ pc \notin {"unmounted", "done"}
        /\ (serial_conn' # serial_conn \/ open_handles' # open_handles))
          => pc' # pc]_vars

\* C14 (as stated): in each of the three variants an I/O error of the handle,
\* raised by in_waiting or by readline, is caught inside the acquisition
\* code; none leaves read_serial_loop or read_serial_data as an exception.
C14_ErrorsContained ==
    /\ pc # "raised"
    /\ tui_pc # "raised"
    /\ sp_pc # "raised"

\* C15: the export history holds one entry for every batch parsed so far, in
\* arrival order, and each entry holds the timestamp and the raw text of the
\* line it was parsed from (so no entry is dropped, replaced or altered)
C15_ExportComplete ==
    /\ \/ Len(session_data) = Len(lines_read)
       \/ /\ Len(session_data) + 1 = Len(lines_read)
          /\ pc = "call_process_line"
    /\ \A i \in 1..Len(session_data) :
          /\ {KeyTimestamp, KeyRawLine} \subseteq DOMAIN session_data[i]
          /\ session_data[i][KeyTimestamp] = IsoNow
          /\ session_data[i][KeyRawLine] = lines_read[i].raw_line

\* C16: action_clear empties the store: after it every series of data_series
\* has length 0, timestamps is empty and sample_count is 0
C16_ClearEmptiesStore ==
    [][ActionClear =>
          /\ sample_count' = 0
          /\ timestamps' = << >>
          /\ \A label \in DOMAIN data_series' :
                Len(data_series'[label]) = 0]_vars

\* re.findall(labeled_pattern, line) for the stripped line of parse_line
LabeledOf(raw) == FindAllFrom(Strip(raw), 1)

\* the names of the labeled matches ms
LabeledNames(ms) == {ms[k].label : k \in 1..Len(ms)}

\* f'CH{k}'
CHName(k) == <<"C", "H">> \o Str(k)

\* f'Kanal_{k}'
KanalName(k) == <<"K", "a", "n", "a", "l", "_">> \o Str(k)

\* C17: when the labeled pattern matches at least once, the batch holds
\* exactly the names of the labeled matches, whatever numeric fields remain;
\* a synthetic CH<n> entry appears only when it matches zero times
C17_LabeledPriority ==
    "tui" \in parsed =>
        LET names == LabeledNames(LabeledOf(parse_input))
        IN  /\ names # {} => DOMAIN parse_output = names
            /\ (\E k \in 1..(Len(parse_input) + 1) :
                    CHName(k) \in (DOMAIN parse_output) \ names) => names = {}

C17_Witness ==
    /\ "tui" \in parsed
    /\ parse_input = <<"a", ":", "1", ",", "7">>
    /\ DOMAIN parse_output = {<<"a">>}

\* the batch out binds, for every k, the number found in the k-th field to
\* the name Name(k), and holds nothing for a field without a number
PositionalBatch(out, fields, Name(_)) ==
    /\ DOMAIN out \subseteq {Name(k) : k \in 1..Len(fields)}
    /\ \A k \in 1..Len(fields) :
          LET num == SearchNumber(fields[k])
          IN  IF num # << >>
              THEN Name(k) \in DOMAIN out /\ out[Name(k)] = float(num)
              ELSE Name(k) \notin DOMAIN out

C19_LastMatchWins ==
    "tui" \in parsed =>
        LET ms == LabeledOf(parse_input)
        IN  ms # << >> =>
              /\ DOMAIN parse_output = LabeledNames(ms)
              /\ \A k \in 1..Len(ms) :
                    (\A j \in (k + 1)..Len(ms) : ms[j].label # ms[k].label)
                        => parse_output[ms[k].label] = float(ms[k].value)

C19_Witness ==
    /\ "tui" \in parsed
    /\ parse_input = <<"a", ":", "1", ",", "a", "=", "2">>
    /\ parse_output[<<"a">>] = float(<<"2">>)

\* C20: no store with a capacity of 0 or less ever has add_values run on it
C20_CapacityPositive ==
    (sample_count > 0 \/ ascii_count > 0) => max_points > 0

\* C21: an iteration of read_serial_loop whose try block raises nothing (no
\* data available, or a line read) leaves the link state alone: serial_conn
\* stays the same open handle, disconnected is unchanged and nothing is
\* notified; the try block enters Disconnected only through an I/O error
C21_NoDataKeepsLink ==
    [][(pc = "read" /\ pc' # pc) =>
          /\ serial_conn \in open_handles \ broken_handles =>
                /\ pc' \in {"sleep", "call_process_line"}
                /\ UNCHANGED <<serial_conn, open_handles, disconnected,
                               last_note>>
                /\ Notes(history') = Notes(history)
          /\ (disconnected' # disconnected
                 \/ pc' \in {"show_disconnected_read", "close_failed"}) =>
                serial_conn \notin open_handles \ broken_handles]_vars

\* an iteration on a healthy handle found no data: nothing was read yet, the
\* loop is at its sleep and the link is as on_mount left it
C21_Witness ==
    /\ pc = "sleep"
    /\ history = <<"connect_ok">>
    /\ serial_conn \in open_handles \ broken_handles
    /\ ~disconnected
    /\ last_note = "none"

\* C22: after a read that failed with SerialException or OSError the loop
\* closes the failing handle and sets serial_conn to None before the
\* iteration ends, nothing else assigns serial_conn in between, and the loop
\* never stands at a read with serial_conn unset
C22_FailedHandleDiscarded ==
    [][/\ (pc = "show_disconnected_read" /\ pc' # pc) => pc' = "close_failed"
       /\ (pc = "close_failed" /\ pc' # pc) =>
             /\ pc' = "sleep"
             /\ serial_conn' = NoConn
             /\ serial_conn \notin open_handles'
       /\ (pc \in {"show_disconnected_read", "close_failed"} /\ pc' = pc) =>
             serial_conn' = serial_conn
       /\ pc' = "read" => serial_conn' # NoConn]_vars

\* a read failed on the handle of on_mount, the loss was notified, and the
\* iteration ended with the handle closed and serial_conn None
C22_Witness ==
    /\ pc = "sleep"
    /\ history = <<"connect_ok", "read_fail", "show_disconnected">>
    /\ serial_conn = NoConn
    /\ open_handles = {}

\* C23: an attempt to open the port (serial.Serial in connect_serial or in
\* _try_reconnect) that follows a failed attempt is made at least
\* reconnect_interval after it
C23_AttemptsSpaced ==
    [][((pc = "unmounted" \/ pc = "try_reconnect") /\ pc' # pc)
          => since_fail >= reconnect_interval]_vars

\* the tick at which the i-th retained slot of label was appended: a slot is
\* appended to a tracked series at every tick, so the last slot is the one
\* of sample_count
AppendTick(label, i) == sample_count - Len(data_series[label]) + i

\* C24: render plots every retained non-missing value of every series
\* against the tick at which add_values appended it, also for a name that
\* first appeared after other names
C24_PlottedAtOwnTick ==
    \A label \in DOMAIN data_series :
        RenderPoints(label) =
            SelectSeq([i \in 1..Len(data_series[label]) |->
                          <<AppendTick(label, i), data_series[label][i]>>],
                      LAMBDA p : p[2] # None)

\* C25: process_line of a line whose batch is empty leaves data_series,
\* timestamps, sample_count, session_data, all_labels and the current values
\* as they were; the tick advances, by one, only when a non-empty batch is
\* processed
C25_EmptyBatchNoEffect ==
    [][/\ (pc = "call_process_line" /\ pc' # pc /\ parse_line(line) = << >>)
             => UNCHANGED <<data_series, timestamps, sample_count,
                            session_data, all_labels, current_values>>
       /\ sample_count' # sample_count
             => /\ pc = "call_process_line"
                /\ parse_line(line) # << >>
                /\ sample_count' = sample_count + 1]_vars

\* a line without a number ("x") is handed to process_line of an
\* application that holds a sample
C25_Witness ==
    /\ pc = "call_process_line"
    /\ line = <<"x">>
    /\ parse_line(line) = << >>
    /\ sample_count = 1
    /\ Len(session_data) = 1

\* timestamps holds the last min(sample_count, max_points) integers up to
\* sample_count in increasing order, and no series is longer than it
TickWindow ==
    /\ Len(timestamps) = Min({sample_count, max_points})
    /\ \A i \in 1..Len(timestamps) :
          timestamps[i] = sample_count - Len(timestamps) + i
    /\ \A label \in DOMAIN data_series :
          Len(data_series[label]) <= Len(timestamps)
    /\ Len(timestamps) <= max_points

\* C26: for a PlotextGraph with max_points >= 1, before and after every
\* add_values, timestamps holds exactly the last min(sample_count,
\* max_points) consecutive integers ending at sample_count in increasing
\* order, every series satisfies len(series) <= len(timestamps) <=
\* max_points, and sample_count never decreases
C26_TickWindow ==
    [][max_points >= 1 =>
          /\ TickWindow
          /\ TickWindow'
          /\ sample_count' >= sample_count]_vars

\* more batches than the capacity were applied, so ticks were evicted, and a
\* name that appeared late has a series shorter than timestamps
C26_Witness ==
    /\ max_points >= 1
    /\ sample_count > max_points
    /\ Len(timestamps) = max_points
    /\ timestamps[1] > 1
    /\ \E label \in DOMAIN data_series :
          Len(data_series[label]) < Len(timestamps)

\* C27: in every state all_labels equals the set of keys of data_series, and
\* no step removes a name from either set
C27_LabelsMatchStore ==
    [][/\ all_labels = DOMAIN data_series
       /\ all_labels' = DOMAIN data_series'
       /\ all_labels \subseteq all_labels'
       /\ DOMAIN data_series \subseteq DOMAIN data_series']_vars

\* two names were collected, a slot was evicted, the link was lost, the log
\* was cleared and the loop is paused
C27_Witness ==
    /\ Cardinality(all_labels) = 2
    /\ all_labels = DOMAIN data_series
    /\ max_points = 1
    /\ sample_count = 2
    /\ serial_conn = NoConn
    /\ disconnected
    /\ log_empty
    /\ paused

====
